---- MODULE Spec2Model ----
(***************************************************************************)
(* Model of somenzz/wechat_enterprise: the WechatEnterprise client, its    *)
(* in-memory access-token cache (get_access_token / _fetch_access_token),  *)
(* the authenticated request helpers (_api_get / _api_post /               *)
(* _handle_api_response) and the public operations built on them.          *)
(*                                                                         *)
(* Optional values (Python None or a value) are sequences of length 0 or   *)
(* 1.  Strings built by formatting are sequences of pieces.  Time is in    *)
(* whole seconds.                                                          *)
(***************************************************************************)
EXTENDS Integers, Sequences, FiniteSets, TLC

\* ------------------------------------------------------------- bounds
\* The clock runs from 0 to MaxTime seconds.
MaxTime == 2
\* While the clock stands at 0 no new operation starts once MaxFetch token
\* requests were issued.
MaxFetch == 3

\* ---------------------------------------------------- program constants
TOKEN_EXPIRATION_BUFFER == 60
\* js.get("expires_in", 7200)
DefaultExpiresIn == 7200
\* errcode of every error the client raises by itself
LocalErrcode == -1

\* ----------------------------------------------------- optional values
None == <<>>
Some(x) == <<x>>
IsNone(o) == o = <<>>
Val(o) == o[1]

\* -------------------------------------------------------------- inputs
\* Threads of control sharing the one client instance.
Callers == {"c1", "c2"}
\* access_token strings the remote may answer with ("" is a string too).
Tokens == {"", "tokA", "tokB"}
\* expires_in values the remote may answer with: the buffer itself (the
\* token is born expired) and one second more.
ExpiresInValues == {60, 61}
\* Non-zero business error codes of the remote; -1 is its "system busy".
ErrCodes == {-1, 40014}
\* errmsg texts the remote sends with them.
ErrMsgs == {"remote says no", "invalid media"}
MediaIds == {"m1", "m2"}
\* Values of the corpsecret attribute.
Secrets == {"s1", "s2"}
UserLists == {<<>>, <<"alice", "bob">>}
\* A path names a readable file, no file, or a file that cannot be read.
Paths == {"readable", "missing", "denied"}
FileTypes == {"file", "image"}

\* The token endpoint's answers.  kind: what came back; exp: the
\* expires_in member (None when absent); expnum: whether it is a number.
TokenResponses ==
    {[kind |-> k, errcode |-> 0, errmsg |-> "", tok |-> None, exp |-> None,
      expnum |-> TRUE] : k \in {"transport", "http", "nonjson"}}
    \cup
    {[kind |-> "json", errcode |-> e, errmsg |-> "invalid credential",
      tok |-> None, exp |-> None, expnum |-> TRUE] : e \in ErrCodes}
    \cup
    {[kind |-> "json", errcode |-> 0, errmsg |-> "ok", tok |-> None,
      exp |-> Some(DefaultExpiresIn), expnum |-> TRUE]}
    \cup
    {[kind |-> "json", errcode |-> 0, errmsg |-> "ok", tok |-> Some(t),
      exp |-> x, expnum |-> TRUE] :
        t \in Tokens, x \in {None} \cup {Some(v) : v \in ExpiresInValues}}
    \cup
    {[kind |-> "json", errcode |-> 0, errmsg |-> "ok", tok |-> Some(t),
      exp |-> Some(0), expnum |-> FALSE] : t \in {"tokA"}}

\* The answers of the authenticated endpoints.  media: the media_id
\* member, "missing" when absent and "null" when JSON null.
ApiResponses ==
    {[kind |-> k, errcode |-> 0, errmsg |-> "", media |-> "missing"] :
        k \in {"transport", "http", "nonjson"}}
    \cup
    {[kind |-> "json", errcode |-> e, errmsg |-> m, media |-> "missing"] :
        e \in ErrCodes, m \in ErrMsgs}
    \cup
    {[kind |-> "json", errcode |-> 0, errmsg |-> "ok", media |-> m] :
        m \in MediaIds \cup {"missing", "null"}}

\* ------------------------------------------------------------- errors
CodeStr(c) == CASE c = -1 -> "-1" [] c = 40014 -> "40014" [] OTHER -> "0"

\* WechatEnterpriseError(message, errcode): str() is "[Errcode: c] message".
WechatEnterpriseError(message, errcode) ==
    [type |-> "WechatEnterpriseError", errcode |-> Some(errcode),
     msg |-> <<"[Errcode: ", CodeStr(errcode), "] ">> \o message]

\* Any other exception: no errcode attribute.
OtherError(type, text) == [type |-> type, errcode |-> None, msg |-> <<text>>]

NoError == [type |-> "", errcode |-> None, msg |-> <<>>]

\* _handle_api_response: the exception it raises for a response, NoError
\* when it returns the JSON body.  A transport error is raised by the
\* session call itself, before the handler runs.
HandleRaises(r) ==
    CASE r.kind = "transport" -> OtherError("ConnectionError", "connection failed")
      [] r.kind = "http" -> OtherError("HTTPError", "http status error")
      [] r.kind = "nonjson" ->
            WechatEnterpriseError(<<"API response is not JSON: ", "body">>, LocalErrcode)
      [] OTHER -> IF r.errcode # 0
                  THEN WechatEnterpriseError(<<r.errmsg>>, r.errcode)
                  ELSE NoError

\* ------------------------------------------------------------ requests
\* Mutant: the recipients are joined last to first.
JoinReversed(users) ==
    [i \in 1..(IF Len(users) = 0 THEN 0 ELSE 2 * Len(users) - 1) |->
        IF i % 2 = 1 THEN users[Len(users) - (i + 1) \div 2 + 1] ELSE "|"]

\* "|".join(users): the pieces of the joined string.
RECURSIVE Join(_)
Join(users) ==
    IF Len(users) = 0 THEN <<>>
    ELSE IF Len(users) = 1 THEN <<users[1]>>
    ELSE <<users[1], "|">> \o Join(Tail(users))

\* The msg_type the send_* methods hand to _send.
MsgType(name) ==
    CASE name = "send_text" -> "text"
      [] name = "send_markdown" -> "markdown"
      [] name = "send_image" -> "image"
      [] name = "send_file" -> "file"
      [] OTHER -> ""

\* A call of a public method; msg_type and media_id are what it hands to
\* _send when it gets there by itself (media_id comes from the upload).
Call(name, users, content, path, ftype) ==
    [name |-> name, users |-> users, content |-> content, path |-> path,
     ftype |-> ftype, msg_type |-> MsgType(name), media_id |-> None]

\* A call of _send itself (line 212) with its four arguments.
SendCall(msg_type, users, content, media_id) ==
    [name |-> "_send", users |-> users, content |-> content,
     path |-> "readable", ftype |-> "", msg_type |-> msg_type,
     media_id |-> media_id]

\* The six kinds _send knows (lines 239-249) and one it does not.
Kinds == {"text", "markdown", "image", "file", "voice", "video"}
SendKinds == Kinds \cup {"news"}

\* content and media_id as _send is given them: neither, one or the other.
Payloads == {<<None, None>>, <<Some("hello"), None>>, <<None, Some("m1")>>}

NoCall == Call("", <<>>, None, "readable", "")

Lookups == {"get_department_id", "get_department_userlist", "get_user_info",
            "get_userid"}

Attachments == {"send_image", "send_file"}

Calls ==
    {Call("get_access_token", <<>>, None, "readable", "")}
    \cup {Call(n, <<>>, None, "readable", "") : n \in Lookups}
    \cup {Call(n, u, Some("hello"), "readable", "") :
            n \in {"send_text", "send_markdown"}, u \in UserLists}
    \cup {Call("send_image", u, None, p, "image") : u \in UserLists, p \in Paths}
    \cup {Call("send_file", u, None, p, "file") : u \in UserLists, p \in Paths}
    \cup {Call("upload_file", <<>>, None, p, t) : p \in Paths, t \in FileTypes}
    \cup {SendCall(k, <<"bob", "carol", "alice">>, pl[1], pl[2]) :
            k \in SendKinds, pl \in Payloads}

\* An authenticated request as it goes on the wire.
Request(url, token, ftype, touser, msgtype, content, media_id) ==
    [url |-> url, access_token |-> token, type |-> ftype, touser |-> touser,
     msgtype |-> msgtype, content |-> content, media_id |-> media_id]

\* ---------------------------------------------------------------- state
VARIABLES
    now,               \* datetime.now(), seconds
    access_token,      \* self._access_token
    token_expires_at,  \* self._token_expires_at
    pc,                \* where each caller stands
    op,                \* the call each caller is in
    phase,             \* "upload" or "send" or "" : the request being made
    tok,               \* get_access_token's result, local to the caller
    pend,              \* _fetch_access_token's local js (token, expires_in)
    mid,               \* media_id local of send_image / send_file
    reqs,              \* authenticated requests the call has issued, in order
    nfetch,            \* token-endpoint requests the call has issued
    chk,               \* the datetime.now() read by the call's cache check
    res,               \* how the call ended
    tokenReqs,         \* token-endpoint requests issued, and
    fetchFailed,       \* whether some get_access_token call has raised, and
    returned,          \* the tokens get_access_token has returned, and
    weakSeen,          \* whether the token endpoint has answered with an
                       \* empty access_token or an expires_in within the
                       \* buffer,
                       \* since construction while the clock stood still
    born,              \* the response the cached token came from
    snap,              \* the cache when the operation began or last got a token
    corpsecret,        \* self.corpsecret
    asked,             \* the corpsecret each caller's token request carried
    pendingInv         \* invalidate() was called, no get_access_token since

vars == <<now, access_token, token_expires_at, pc, op, phase, tok, pend, mid,
          reqs, nfetch, chk, res, tokenReqs, fetchFailed, returned, weakSeen,
          born, snap, pendingInv, corpsecret, asked>>

NoPend == [tok |-> None, exp |-> None, expnum |-> TRUE]
\* remote, rmsg: the non-zero errcode and the errmsg of the answer that ended
\* the call, if one did.
NoRes == [state |-> "none", ret |-> None, err |-> NoError, remote |-> None,
          rmsg |-> ""]
\* paired: the cached token and the cached expiry were written by one
\* and the same fetch (or neither has been written).
\* secret: the corpsecret the cached token was asked with.
NotBorn == [exp |-> None, at |-> None, by |-> "", paired |-> TRUE,
            secret |-> ""]

\* __init__ (lines 60-62): nothing cached.
Init ==
    /\ now = 0
    /\ access_token = None
    /\ token_expires_at = None
    /\ pc = [c \in Callers |-> "idle"]
    /\ op = [c \in Callers |-> NoCall]
    /\ phase = [c \in Callers |-> ""]
    /\ tok = [c \in Callers |-> None]
    /\ pend = [c \in Callers |-> NoPend]
    /\ mid = [c \in Callers |-> None]
    /\ reqs = [c \in Callers |-> <<>>]
    /\ nfetch = [c \in Callers |-> 0]
    /\ chk = [c \in Callers |-> None]
    /\ res = [c \in Callers |-> NoRes]
    /\ tokenReqs = 0
    /\ fetchFailed = FALSE
    /\ returned = {}
    /\ weakSeen = FALSE
    /\ born = NotBorn
    /\ snap = <<None, None>>
    /\ corpsecret = "s1"
    /\ asked = [c \in Callers |-> ""]
    /\ pendingInv = FALSE

\* ------------------------------------------------------------- helpers
\* Python truthiness of an Optional[str]: None and "" are false.
Truthy(o) == ~IsNone(o) /\ Val(o) # ""

\* Mutant: the comparison of line 145 turned round.
CacheValidInverted(t) == ~IsNone(token_expires_at) /\ t > Val(token_expires_at)

\* Line 145: the cached token is served.
CacheValid(t) == ~IsNone(token_expires_at) /\ t < Val(token_expires_at)

\* Mutant: the buffer is not taken off.
ExpiresAtNoBuffer(t, expires_in) == t + expires_in

\* Lines 134-136: datetime.now() + timedelta(seconds=expires_in - BUFFER).
ExpiresAt(t, expires_in) == t + (expires_in - TOKEN_EXPIRATION_BUFFER)

\* Line 130: js.get("expires_in", 7200).
ExpiresIn(r) == IF IsNone(r.exp) THEN Some(DefaultExpiresIn) ELSE r.exp

\* A successful answer whose token is the empty string or whose lifetime
\* does not exceed the buffer.
Weak(r) ==
    \/ Val(r.tok) = ""
    \/ r.expnum /\ Val(ExpiresIn(r)) <= TOKEN_EXPIRATION_BUFFER

\* upload_file's try block (lines 198-210) is on the stack.
InUpload(c) == phase[c] = "upload"

\* upload_file's except clauses: what the exception leaves it as.
UploadWrap(e) ==
    IF e.type = "FileNotFoundError"
    THEN WechatEnterpriseError(<<"file not found: ", "path">>, LocalErrcode)
    ELSE WechatEnterpriseError(<<"file upload failed: ">> \o e.msg, LocalErrcode)

\* The exception as the caller of the operation receives it.
Propagate(c, e) == IF InUpload(c) THEN UploadWrap(e) ELSE e

\* _fetch_access_token's except clause (lines 124-126).
FetchWrap(e) ==
    WechatEnterpriseError(<<"failed to get token: ">> \o e.msg, LocalErrcode)

\* Mutant: the send does not carry the media_id of the upload.
NextRequestNoMedia(c, token) ==
    LET n == op[c].name IN
    IF phase[c] = "upload"
    THEN Request("UPLOAD_URL", token, op[c].ftype, <<>>, "", None, None)
    ELSE IF phase[c] = "send"
    THEN Request("SEND_URL", token, "", Join(op[c].users), op[c].msg_type,
                 IF op[c].msg_type \in {"text", "markdown"}
                 THEN op[c].content ELSE None,
                 None)
    ELSE Request(n, token, "", <<>>, "", None, None)

\* The URL and body of the request the caller is about to make.
NextRequest(c, token) ==
    LET n == op[c].name IN
    IF phase[c] = "upload"
    THEN Request("UPLOAD_URL", token, op[c].ftype, <<>>, "", None, None)
    ELSE IF phase[c] = "send"
    THEN Request("SEND_URL", token, "", Join(op[c].users), op[c].msg_type,
                 IF op[c].msg_type \in {"text", "markdown"}
                 THEN op[c].content ELSE None,
                 IF op[c].msg_type \in {"text", "markdown"}
                 THEN None ELSE mid[c])
    ELSE Request(n, token, "", <<>>, "", None, None)

\* Mutant: only a missing file is noticed before the request is made.
OpenErrorOnlyMissing(path) ==
    CASE path = "missing" -> OtherError("FileNotFoundError", "no such file")
      [] OTHER -> NoError

\* open(filepath, "rb") (line 199): the exception it raises, if any.
OpenError(path) ==
    CASE path = "missing" -> OtherError("FileNotFoundError", "no such file")
      [] path = "denied" -> OtherError("PermissionError", "permission denied")
      [] OTHER -> NoError

\* Mutant: a kind _send does not know is let through.
SendRaisesAnyKind(msg_type, content, media_id) ==
    IF msg_type \in {"text", "markdown"}
    THEN IF IsNone(content) THEN OtherError("ValueError", "content is empty")
         ELSE NoError
    ELSE IF msg_type \in {"image", "file", "voice", "video"}
    THEN IF IsNone(media_id) THEN OtherError("ValueError", "media_id is empty")
         ELSE NoError
    ELSE NoError

\* _send's checks of the kind and its payload (lines 239-252): the
\* ValueError it raises, if any.
SendRaises(msg_type, content, media_id) ==
    IF msg_type \in {"text", "markdown"}
    THEN IF IsNone(content) THEN OtherError("ValueError", "content is empty")
         ELSE NoError
    ELSE IF msg_type \in {"image", "file", "voice", "video"}
    THEN IF IsNone(media_id) THEN OtherError("ValueError", "media_id is empty")
         ELSE NoError
    ELSE OtherError("ValueError", "unsupported message type")

\* response_json["media_id"] (line 205) of a body that has the member.
MediaId(r) == IF r.media = "null" THEN None ELSE Some(r.media)

\* The call ends with exception e.
Fails(c, e) ==
    /\ pc' = [pc EXCEPT ![c] = "done"]
    /\ res' = [res EXCEPT ![c] = [state |-> "err", ret |-> None, err |-> e,
                                  remote |-> None, rmsg |-> ""]]

\* The call ends returning r.
Returns(c, r) ==
    /\ pc' = [pc EXCEPT ![c] = "done"]
    /\ res' = [res EXCEPT ![c] = [state |-> "ok", ret |-> r, err |-> NoError,
                                  remote |-> None, rmsg |-> ""]]

\* Mutant: the request carries the token the caller held before.
AfterTokenStale(c, t) ==
    /\ tok' = [tok EXCEPT ![c] = t]
    /\ returned' = IF now = 0 THEN returned \cup {t} ELSE returned
    /\ pendingInv' = FALSE
    /\ IF op[c].name = "get_access_token"
       THEN Returns(c, t) /\ reqs' = reqs
       ELSE /\ reqs' = [reqs EXCEPT ![c] = Append(@, NextRequest(c, tok[c]))]
            /\ pc' = [pc EXCEPT ![c] = "api_wait"]
            /\ res' = res

\* get_access_token has returned t: a direct call ends, _api_get and
\* _api_post put it in the query and send their request (lines 94-96,
\* 108-112).
AfterToken(c, t) ==
    /\ tok' = [tok EXCEPT ![c] = t]
    /\ returned' = IF now = 0 THEN returned \cup {t} ELSE returned
    /\ pendingInv' = FALSE
    /\ IF op[c].name = "get_access_token"
       THEN Returns(c, t) /\ reqs' = reqs
       ELSE /\ reqs' = [reqs EXCEPT ![c] = Append(@, NextRequest(c, t))]
            /\ pc' = [pc EXCEPT ![c] = "api_wait"]
            /\ res' = res

\* get_access_token has raised e.
AfterTokenError(c, e) ==
    /\ fetchFailed' = (now = 0)
    /\ pendingInv' = FALSE
    /\ Fails(c, Propagate(c, e))

\* Line 122: the token request goes out.
SendTokenRequest(c) ==
    /\ pc' = [pc EXCEPT ![c] = "fetch_wait"]
    /\ nfetch' = [nfetch EXCEPT ![c] = @ + 1]
    /\ tokenReqs' = IF now = 0 THEN tokenReqs + 1 ELSE tokenReqs
    /\ asked' = [asked EXCEPT ![c] = corpsecret]

\* ------------------------------------------------------------- actions
\* A caller invokes an operation.  What runs before the first read of the
\* shared cache is local: upload_file opens the file (line 199), _send
\* builds and validates the body (lines 225-252).
Start(c, call) ==
    /\ pc[c] = "idle"
    /\ now = 0 => tokenReqs < MaxFetch
    /\ op' = [op EXCEPT ![c] = call]
    /\ IF call.name \in Attachments \cup {"upload_file"}
       THEN /\ phase' = [phase EXCEPT ![c] = "upload"]
            /\ IF OpenError(call.path) # NoError
               THEN Fails(c, UploadWrap(OpenError(call.path)))
               ELSE pc' = [pc EXCEPT ![c] = "gat_tok"] /\ res' = res
       ELSE IF call.name \in {"send_text", "send_markdown", "_send"}
       THEN /\ phase' = [phase EXCEPT ![c] = "send"]
            /\ IF SendRaises(call.msg_type, call.content, call.media_id)
                    # NoError
               THEN Fails(c, SendRaises(call.msg_type, call.content,
                                        call.media_id))
               ELSE pc' = [pc EXCEPT ![c] = "gat_tok"] /\ res' = res
       ELSE /\ phase' = [phase EXCEPT ![c] = ""]
            /\ pc' = [pc EXCEPT ![c] = "gat_tok"]
            /\ res' = res
    /\ mid' = [mid EXCEPT ![c] = call.media_id]
    /\ snap' = <<access_token, token_expires_at>>
    /\ UNCHANGED <<now, access_token, token_expires_at, tok, pend, reqs,
                   nfetch, chk, tokenReqs, fetchFailed, returned, weakSeen,
                   born, pendingInv,
                   corpsecret, asked>>

\* Line 145, first operand: self._access_token is read for its truth
\* value; when it is false line 149 runs and the token request goes out.
CheckToken(c) ==
    /\ pc[c] = "gat_tok"
    /\ IF Truthy(access_token)
       THEN /\ pc' = [pc EXCEPT ![c] = "gat_exp"]
            /\ UNCHANGED <<nfetch, tokenReqs, asked>>
       ELSE SendTokenRequest(c)
    /\ chk' = [chk EXCEPT ![c] = None]
    /\ UNCHANGED <<now, access_token, token_expires_at, op, phase, tok, pend,
                   mid, reqs, res, fetchFailed, returned, weakSeen, born, snap,
                   pendingInv,
                   corpsecret>>

\* Line 145, second and third operand: self._token_expires_at is read and
\* compared with datetime.now().
CheckExpiry(c) ==
    /\ pc[c] = "gat_exp"
    /\ chk' = [chk EXCEPT ![c] = Some(now)]
    /\ IF CacheValid(now)
       THEN /\ pc' = [pc EXCEPT ![c] = "gat_ret"]
            /\ UNCHANGED <<nfetch, tokenReqs, asked>>
       ELSE SendTokenRequest(c)
    /\ UNCHANGED <<now, access_token, token_expires_at, op, phase, tok, pend,
                   mid, reqs, res, fetchFailed, returned, weakSeen, born, snap,
                   pendingInv,
                   corpsecret>>

\* Line 146: self._access_token is read again and returned.
ReturnCached(c) ==
    /\ pc[c] = "gat_ret"
    /\ AfterToken(c, access_token)
    /\ UNCHANGED <<now, access_token, token_expires_at, op, phase, pend, mid,
                   nfetch, chk, tokenReqs, fetchFailed, weakSeen, born, snap,
                   corpsecret, asked>>

\* Lines 122-133: the token endpoint answers r.  An exception of the
\* request or of _handle_api_response is wrapped (124-126); line 128
\* raises KeyError when the body has no access_token; line 133 stores the
\* token.
FetchResponse(c, r) ==
    /\ pc[c] = "fetch_wait"
    /\ IF HandleRaises(r) # NoError
       THEN /\ AfterTokenError(c, FetchWrap(HandleRaises(r)))
            /\ UNCHANGED <<access_token, pend, born, snap, weakSeen>>
       ELSE IF IsNone(r.tok)
       THEN /\ AfterTokenError(c, OtherError("KeyError", "'access_token'"))
            /\ UNCHANGED <<access_token, pend, born, snap, weakSeen>>
       ELSE /\ access_token' = r.tok
            /\ pend' = [pend EXCEPT ![c] =
                 [tok |-> r.tok, exp |-> ExpiresIn(r), expnum |-> r.expnum]]
            /\ born' = [exp |-> IF r.expnum THEN ExpiresIn(r) ELSE None,
                        at |-> Some(now), by |-> c, paired |-> FALSE,
                        secret |-> asked[c]]
            /\ weakSeen' = (weakSeen \/ (now = 0 /\ Weak(r)))
            /\ pc' = [pc EXCEPT ![c] = "fetch_exp"]
            /\ UNCHANGED <<res, fetchFailed, pendingInv, snap>>
    /\ UNCHANGED <<now, token_expires_at, op, phase, tok, mid, reqs, nfetch,
                   chk, tokenReqs, returned,
                   corpsecret, asked>>

\* Lines 134-138: the expiry instant is computed and stored, the token
\* returned.  expires_in - 60 raises TypeError when expires_in is no number.
StoreExpiry(c) ==
    /\ pc[c] = "fetch_exp"
    /\ pend' = [pend EXCEPT ![c] = NoPend]
    /\ IF ~pend[c].expnum
       THEN /\ AfterTokenError(c, OtherError("TypeError", "unsupported operand"))
            /\ UNCHANGED <<token_expires_at, born, snap, tok, reqs, returned>>
       ELSE /\ token_expires_at' = Some(ExpiresAt(now, Val(pend[c].exp)))
            /\ born' = IF born.by = c
                       THEN [born EXCEPT !.at = Some(now), !.paired = TRUE]
                       ELSE [born EXCEPT !.paired = FALSE]
            /\ snap' = <<access_token, token_expires_at'>>
            /\ AfterToken(c, pend[c].tok)
            /\ UNCHANGED fetchFailed
    /\ UNCHANGED <<now, access_token, op, phase, mid, nfetch, chk, tokenReqs,
                   weakSeen,
                   corpsecret, asked>>

\* Mutant: an answer that is an error makes the caller ask again.
ApiFailureRetry(c, r) ==
    IF Len(reqs[c]) < 3
    THEN pc' = [pc EXCEPT ![c] = "gat_tok"] /\ res' = res
    ELSE /\ pc' = [pc EXCEPT ![c] = "done"]
         /\ res' = [res EXCEPT ![c] =
              [state |-> "err", ret |-> None,
               err |-> Propagate(c, HandleRaises(r)),
               remote |-> IF r.kind = "json" THEN Some(r.errcode) ELSE None,
               rmsg |-> IF r.kind = "json" THEN r.errmsg ELSE ""]]

\* _handle_api_response raises (lines 69-83): the exception leaves the
\* operation, through upload_file's except clause if it is in one.
ApiFailure(c, r) ==
    /\ pc' = [pc EXCEPT ![c] = "done"]
    /\ res' = [res EXCEPT ![c] =
         [state |-> "err", ret |-> None,
          err |-> Propagate(c, HandleRaises(r)),
          remote |-> IF r.kind = "json" THEN Some(r.errcode) ELSE None,
          rmsg |-> IF r.kind = "json" THEN r.errmsg ELSE ""]]

\* Lines 97 / 113 and what the operation does with the answer r:
\* _handle_api_response raises or returns the body; upload_file reads
\* media_id (line 205); send_image / send_file go on to _send (266, 278).
ApiResponse(c, r) ==
    /\ pc[c] = "api_wait"
    /\ IF HandleRaises(r) # NoError
       THEN /\ ApiFailure(c, r)
            /\ UNCHANGED <<phase, mid>>
       ELSE IF phase[c] # "upload"
       THEN /\ Returns(c, None)
            /\ UNCHANGED <<phase, mid>>
       ELSE IF r.media = "missing"
       THEN /\ Fails(c, UploadWrap(OtherError("KeyError", "'media_id'")))
            /\ UNCHANGED <<phase, mid>>
       ELSE IF op[c].name = "upload_file"
       THEN /\ Returns(c, MediaId(r))
            /\ UNCHANGED <<phase, mid>>
       ELSE /\ phase' = [phase EXCEPT ![c] = "send"]
            /\ mid' = [mid EXCEPT ![c] = MediaId(r)]
            /\ IF SendRaises(op[c].msg_type, None, MediaId(r)) # NoError
               THEN Fails(c, SendRaises(op[c].msg_type, None, MediaId(r)))
               ELSE pc' = [pc EXCEPT ![c] = "gat_tok"] /\ res' = res
    /\ UNCHANGED <<now, access_token, token_expires_at, op, tok, pend, reqs,
                   nfetch, chk, tokenReqs, fetchFailed, returned, weakSeen,
                   born, snap, pendingInv,
                   corpsecret, asked>>

\* The caller has its result; its frame is gone.
Return(c) ==
    /\ pc[c] = "done"
    /\ pc' = [pc EXCEPT ![c] = "idle"]
    /\ op' = [op EXCEPT ![c] = NoCall]
    /\ phase' = [phase EXCEPT ![c] = ""]
    /\ tok' = [tok EXCEPT ![c] = None]
    /\ mid' = [mid EXCEPT ![c] = None]
    /\ reqs' = [reqs EXCEPT ![c] = <<>>]
    /\ nfetch' = [nfetch EXCEPT ![c] = 0]
    /\ chk' = [chk EXCEPT ![c] = None]
    /\ res' = [res EXCEPT ![c] = NoRes]
    /\ asked' = [asked EXCEPT ![c] = ""]
    /\ UNCHANGED <<now, access_token, token_expires_at, pend, tokenReqs,
                   fetchFailed, returned, weakSeen, born, snap, pendingInv,
                   corpsecret>>

\* The class defines no invalidate attribute: the call raises
\* AttributeError and touches nothing.
Invalidate(c) ==
    /\ pc[c] = "idle"
    /\ op' = [op EXCEPT ![c] = Call("invalidate", <<>>, None, "readable", "")]
    /\ pendingInv' = TRUE
    /\ Fails(c, OtherError("AttributeError", "no attribute 'invalidate'"))
    /\ snap' = <<access_token, token_expires_at>>
    /\ UNCHANGED <<now, access_token, token_expires_at, phase, tok, pend, mid,
                   reqs, nfetch, chk, tokenReqs, fetchFailed, returned,
                   weakSeen, born,
                   corpsecret, asked>>

\* A second passes.  What was counted while the clock stood still is
\* dropped.
Tick ==
    /\ now < MaxTime
    /\ now' = now + 1
    /\ tokenReqs' = 0
    /\ fetchFailed' = FALSE
    /\ returned' = {}
    /\ weakSeen' = FALSE
    /\ UNCHANGED <<access_token, token_expires_at, pc, op, phase, tok, pend,
                   mid, reqs, nfetch, chk, res, born, snap, pendingInv,
                   corpsecret, asked>>

\* -------------------------------------------------------- specifications
\* The one caller of the sequential specification.
SeqCallers == {"c1"}

AllIdle == \A c \in Callers : pc[c] = "idle"

\* One operation at a time.
StartSeq(c, call) == AllIdle /\ Start(c, call)

InvalidateSeq(c) == AllIdle /\ Invalidate(c)

Next ==
    \/ \E c \in SeqCallers, call \in Calls : StartSeq(c, call)
    \/ \E c \in SeqCallers : InvalidateSeq(c)
    \/ \E c \in SeqCallers : CheckToken(c)
    \/ \E c \in SeqCallers : CheckExpiry(c)
    \/ \E c \in SeqCallers : ReturnCached(c)
    \/ \E c \in SeqCallers, r \in TokenResponses : FetchResponse(c, r)
    \/ \E c \in SeqCallers : StoreExpiry(c)
    \/ \E c \in SeqCallers, r \in ApiResponses : ApiResponse(c, r)
    \/ \E c \in SeqCallers : Return(c)
    \/ Tick

Spec == Init /\ [][Next]_vars

\* Callers of get_access_token running concurrently on the one instance.
StartConc(c) == Start(c, Call("get_access_token", <<>>, None, "readable", ""))

NextConc ==
    \/ \E c \in Callers : StartConc(c)
    \/ \E c \in Callers : CheckToken(c)
    \/ \E c \in Callers : CheckExpiry(c)
    \/ \E c \in Callers : ReturnCached(c)
    \/ \E c \in Callers, r \in TokenResponses : FetchResponse(c, r)
    \/ \E c \in Callers : StoreExpiry(c)
    \/ \E c \in Callers : Return(c)
    \/ Tick

SpecConc == Init /\ [][NextConc]_vars

\* The application gives the instance another secret between two calls:
\* corpsecret is a plain attribute (line 55), read anew by every token
\* request (line 119).
SetSecret(s) ==
    /\ AllIdle
    /\ s # corpsecret
    /\ corpsecret' = s
    /\ UNCHANGED <<now, access_token, token_expires_at, pc, op, phase, tok,
                   pend, mid, reqs, nfetch, chk, res, tokenReqs, fetchFailed,
                   returned, weakSeen, born, snap, pendingInv, asked>>

StartRotate(c) == AllIdle /\ StartConc(c)

NextRotate ==
    \/ \E c \in SeqCallers : StartRotate(c)
    \/ \E s \in Secrets : SetSecret(s)
    \/ \E c \in SeqCallers : CheckToken(c)
    \/ \E c \in SeqCallers : CheckExpiry(c)
    \/ \E c \in SeqCallers : ReturnCached(c)
    \/ \E c \in SeqCallers, r \in TokenResponses : FetchResponse(c, r)
    \/ \E c \in SeqCallers : StoreExpiry(c)
    \/ \E c \in SeqCallers : Return(c)
    \/ Tick

SpecRotate == Init /\ [][NextRotate]_vars

\* ================================================================ claims
Done(c) == pc[c] = "done"
Direct(c) == op[c].name = "get_access_token"
Ok(c) == res[c].state = "ok"
Failed(c) == res[c].state = "err"
Expired == ~IsNone(token_expires_at) /\ now >= Val(token_expires_at)

\* ------------------------------------------------------------------ C1
\* C1 as stated: while the clock has not advanced and no get_access_token
\* call has failed, whatever successful answers the token endpoint gave,
\* at most one token request has been issued, exactly one once a call has
\* returned, and all calls have returned the same token.
C1_OneFetchAnyResponse ==
    (now = 0 /\ ~fetchFailed) =>
        /\ tokenReqs <= 1
        /\ Cardinality(returned) <= 1
        /\ (returned # {} => tokenReqs = 1)

\* C1 amended: the same, provided every successful answer of the token
\* endpoint carried a non-empty access_token and an expires_in greater
\* than the 60 second buffer (or none, which counts as 7200).
C1_OneFetchPerCycle ==
    (now = 0 /\ ~fetchFailed /\ ~weakSeen) =>
        /\ tokenReqs <= 1
        /\ Cardinality(returned) <= 1
        /\ (returned # {} => tokenReqs = 1)

\* A later call (here through an authenticated operation) has been served
\* from the cache: one token request in all, none by this call.
C1_Witness ==
    \E c \in Callers :
        /\ Done(c) /\ Ok(c) /\ ~Direct(c)
        /\ nfetch[c] = 0 /\ Len(reqs[c]) = 1
        /\ now = 0 /\ ~fetchFailed /\ ~weakSeen
        /\ tokenReqs = 1 /\ returned = {Some("tokB")}

\* ------------------------------------------------------------------ C2
\* What C2 says of the call that finds the cached credential expired, for
\* calls made one after another:
\*  - the cache is never served at or after its expiry instant;
\*  - a direct call that fetched made one token request, returns the token
\*    now cached, and the cached expiry is that token's fetch time +
\*    expires_in - 60;
\*  - a direct call that did not fetch returns the cached token.
C2_Refreshes ==
    \A c \in Callers :
        /\ pc[c] = "gat_ret" => Val(chk[c]) < Val(token_expires_at)
        /\ (Done(c) /\ Direct(c) /\ Ok(c) /\ nfetch[c] >= 1) =>
              /\ nfetch[c] = 1
              /\ res[c].ret = access_token
              /\ ~IsNone(born.exp)
              /\ token_expires_at =
                    Some(Val(born.at) + Val(born.exp) - TOKEN_EXPIRATION_BUFFER)
        /\ (Done(c) /\ Direct(c) /\ Ok(c) /\ nfetch[c] = 0) =>
              res[c].ret = access_token

\* C2 as stated: besides, no token request is in flight while a credential
\* is cached whose expiry instant is still ahead.
C2_RefreshThenCached ==
    /\ C2_Refreshes
    /\ \A c \in Callers :
          pc[c] = "fetch_wait" => ~(~IsNone(access_token) /\ CacheValid(now))

\* C2 amended: a call after the refresh and before the new expiry instant
\* returns the new token without fetching provided that token is not the
\* empty string.
C2_RefreshThenCachedNonEmpty ==
    /\ C2_Refreshes
    /\ \A c \in Callers :
          pc[c] = "fetch_wait" => ~(Truthy(access_token) /\ CacheValid(now))

\* A direct call found a cached credential at its expiry instant or past
\* it, fetched once and returns the new token, now cached with an expiry
\* instant that is ahead.
C2_Witness ==
    \E c \in Callers :
        /\ Done(c) /\ Direct(c) /\ Ok(c) /\ nfetch[c] = 1
        /\ ~IsNone(chk[c])
        /\ res[c].ret = Some("tokB") /\ access_token = Some("tokB")
        /\ CacheValid(now)

\* ------------------------------------------------------------------ C3
\* Token requests in flight: sent at line 122, not yet answered.
InFlight == {c \in Callers : pc[c] = "fetch_wait"}

\* C3: with callers running get_access_token concurrently on the one
\* instance, at most one token request is in flight at any time; and
\* starting from the empty cache, while the clock stands still and the
\* token endpoint answers with tokens that can be cached, one token request
\* is made in all and every caller gets the token of that fetch.
C3_SingleFlight ==
    /\ Cardinality(InFlight) <= 1
    /\ (now = 0 /\ ~fetchFailed /\ ~weakSeen) =>
          (tokenReqs <= 1 /\ Cardinality(returned) <= 1)

\* ------------------------------------------------------------------ C4
\* The instant fetch time + expires_in - 60 of the token now cached.
BufferInstant == Val(born.at) + Val(born.exp) - TOKEN_EXPIRATION_BUFFER

\* C4: whenever get_access_token is about to return the cached token (line
\* 146), the time its check read (line 145) is strictly earlier than that
\* token's fetch time + expires_in - 60.
C4_NeverServedInBuffer ==
    \A c \in Callers :
        (pc[c] = "gat_ret" /\ ~IsNone(born.exp)) => Val(chk[c]) < BufferInstant

\* ------------------------------------------------------------------ C5
\* C5: a direct get_access_token call whose token fetch failed (transport
\* error, non-zero errcode, non-JSON body, or no access_token member) has
\* made exactly one token request, ends with WechatEnterpriseError and
\* returns no token.  (A TypeError comes of a non-numeric expires_in, which
\* is none of the reasons C5 names.)
C5_FetchFailureIsAuthError ==
    \A c \in Callers :
        (Done(c) /\ Direct(c) /\ Failed(c) /\ res[c].err.type # "TypeError") =>
            /\ nfetch[c] = 1
            /\ res[c].err.type = "WechatEnterpriseError"
            /\ IsNone(res[c].ret)

\* ------------------------------------------------------------------ C6
\* C6: the get_access_token call that follows invalidate() never serves
\* the cache.
C6_InvalidateForcesFetch ==
    \A c \in Callers : pc[c] = "gat_ret" => ~pendingInv

\* ------------------------------------------------------------------ C7
IsPrefix(a, b) == Len(a) <= Len(b) /\ \A i \in 1..Len(a) : a[i] = b[i]

\* The two requests of send_image / send_file, were each sent with the
\* token the caller obtained for it.
UploadThenSend(c) ==
    LET t == IF op[c].name = "send_image" THEN "image" ELSE "file" IN
    << Request("UPLOAD_URL", IF Len(reqs[c]) >= 1 THEN reqs[c][1].access_token
                             ELSE None,
               t, <<>>, "", None, None),
       Request("SEND_URL", IF Len(reqs[c]) >= 2 THEN reqs[c][2].access_token
                           ELSE None,
               "", Join(op[c].users), t, None, mid[c]) >>

\* C7: in send_image and send_file with recipients and a readable file the
\* authenticated requests issued so far are the upload (type "image" resp.
\* "file") and then the send, in this order; the send is issued only once
\* the upload has answered with a media_id, which is the media_id of the
\* send's body; and a call that succeeded has issued exactly these two.
C7_UploadThenSend ==
    \A c \in Callers :
        (op[c].name \in Attachments /\ op[c].users # <<>>
            /\ op[c].path = "readable") =>
            /\ IsPrefix(reqs[c], UploadThenSend(c))
            /\ Len(reqs[c]) = 2 =>
                  ~IsNone(mid[c]) /\ reqs[c][2].media_id = mid[c]
            /\ (Done(c) /\ Ok(c)) => Len(reqs[c]) = 2

\* send_image has succeeded: upload of type image, then send with the
\* media_id the upload returned.
C7_Witness ==
    \E c \in Callers :
        /\ Done(c) /\ Ok(c) /\ op[c].name = "send_image"
        /\ op[c].users = <<"alice", "bob">>
        /\ Len(reqs[c]) = 2
        /\ reqs[c][1].url = "UPLOAD_URL" /\ reqs[c][1].type = "image"
        /\ reqs[c][2].url = "SEND_URL" /\ reqs[c][2].media_id = Some("m2")
        /\ mid[c] = Some("m2")

\* ------------------------------------------------------------------ C8
\* C8: when the upload of send_image / send_file is answered with a
\* non-zero errcode, no send request is issued and the call fails with an
\* error that carries that errcode.
C8_UploadErrorCarriesErrcode ==
    \A c \in Callers :
        (Done(c) /\ op[c].name \in Attachments /\ phase[c] = "upload"
            /\ ~IsNone(res[c].remote)) =>
            /\ Len(reqs[c]) = 1
            /\ Failed(c)
            /\ res[c].err.errcode = res[c].remote

\* ------------------------------------------------------------------ C9
Sends == {"send_text", "send_markdown", "send_image", "send_file"}

\* C9: a send operation called with an empty recipient list issues no
\* token request and no authenticated request, and ends with an error.
C9_EmptyRecipientsRejected ==
    \A c \in Callers :
        (op[c].name \in Sends /\ op[c].users = <<>>) =>
            /\ nfetch[c] = 0
            /\ reqs[c] = <<>>
            /\ Done(c) => Failed(c)

\* ----------------------------------------------------------------- C10
\* The call of c: upload_file, send_image or send_file with a path that
\* cannot be opened.
BadPath(c) ==
    /\ op[c].name \in Attachments \cup {"upload_file"}
    /\ op[c].path \in {"missing", "denied"}

\* C10: such a call has ended at once with a WechatEnterpriseError of
\* errcode -1 whose message tells the failure to open the file, without a
\* token request or an authenticated request ...
C10_NoRequests ==
    \A c \in Callers :
        BadPath(c) =>
            /\ Done(c) /\ Failed(c)
            /\ nfetch[c] = 0 /\ reqs[c] = <<>>
            /\ res[c].err.type = "WechatEnterpriseError"
            /\ res[c].err.errcode = Some(LocalErrcode)
            /\ \E i \in 1..Len(res[c].err.msg) :
                  res[c].err.msg[i] \in {"file not found: ", "permission denied"}

\* ... and the step that makes the call leaves the token cache as it was.
C10_CacheKept ==
    \A c \in Callers :
        (pc[c] = "idle" /\ BadPath(c)') =>
            UNCHANGED <<access_token, token_expires_at>>

\* C10: upload_file, send_image and send_file called with a path that
\* cannot be opened fail with the local file error and issue no network
\* request, and the token cache is left as it was.
C10_BadPathNoNetwork == [](C10_NoRequests) /\ [][C10_CacheKept]_vars

\* upload_file of a file that cannot be read has failed while a token is
\* cached.
C10_Witness ==
    \E c \in Callers :
        /\ Done(c) /\ Failed(c) /\ op[c].name = "upload_file"
        /\ op[c].path = "denied"
        /\ nfetch[c] = 0 /\ reqs[c] = <<>>
        /\ access_token = Some("tokA") /\ CacheValid(now)

\* ----------------------------------------------------------------- C11
Authenticated ==
    {"send_text", "send_markdown", "send_image", "send_file", "upload_file",
     "get_user_info", "get_userid", "get_department_id",
     "get_department_userlist"}

\* C11: when an authenticated operation ends on an answer with errcode
\* c # 0 and errmsg m, the error the caller receives has errcode c and a
\* message in which m stands unchanged.
C11_ErrorVerbatim ==
    \A c \in Callers :
        (Done(c) /\ op[c].name \in Authenticated /\ ~IsNone(res[c].remote)) =>
            /\ Failed(c)
            /\ res[c].err.errcode = res[c].remote
            /\ \E i \in 1..Len(res[c].err.msg) : res[c].err.msg[i] = res[c].rmsg

\* ----------------------------------------------------------------- C12
\* The kind of the message and what it comes with do not go together.
InvalidPairing(call) ==
    \/ call.msg_type \in {"text", "markdown"} /\ call.content = None
    \/ call.msg_type \in {"image", "file", "voice", "video"}
         /\ call.media_id = None
    \/ call.msg_type \notin
         {"text", "markdown", "image", "file", "voice", "video"}

BadSend(c) ==
    pc[c] # "idle" /\ op[c].name = "_send" /\ InvalidPairing(op[c])

C12_NoRequests ==
    \A c \in Callers :
        /\ BadSend(c) =>
             /\ Done(c) /\ Failed(c)
             /\ res[c].err.type = "ValueError"
             /\ nfetch[c] = 0
             /\ reqs[c] = <<>>
        /\ (Done(c) /\ res[c].err.type = "ValueError") =>
             \A i \in 1..Len(reqs[c]) : reqs[c][i].url # "SEND_URL"

C12_CacheKept ==
    \A c \in Callers :
        (pc[c] = "idle" /\ BadSend(c)') =>
            UNCHANGED <<access_token, token_expires_at>>

\* C12: _send given a kind without its payload, or a kind it does not know,
\* raises ValueError before any request: no token fetch, no send, and the
\* cached token and expiry stay as they were.
C12_InvalidPairingRejected == [](C12_NoRequests) /\ [][C12_CacheKept]_vars

C12_Witness ==
    \E c \in Callers :
        /\ BadSend(c) /\ op[c].msg_type = "news" /\ op[c].content # None
        /\ res[c].err.type = "ValueError"
        /\ access_token = Some("tokA") /\ ~IsNone(token_expires_at)

\* ----------------------------------------------------------------- C13
SingleRequest ==
    {"send_text", "send_markdown", "upload_file", "get_user_info",
     "get_userid", "get_department_id", "get_department_userlist"}

\* C13: one invocation of a single-request operation issues at most one
\* authenticated request and at most one token request; send_image and
\* send_file issue at most two authenticated requests; no request goes out
\* a second time, and none goes out after the operation has failed.
C13_NoRetry ==
    \A c \in Callers :
        /\ op[c].name \in SingleRequest =>
             Len(reqs[c]) <= 1 /\ nfetch[c] <= 1
        /\ op[c].name \in Attachments => Len(reqs[c]) <= 2
        /\ \A i, j \in 1..Len(reqs[c]) :
             reqs[c][i].url = reqs[c][j].url => i = j
        /\ Failed(c) => pc[c] = "done"

\* send_image has made its two requests and the second one was refused.
C13_Witness ==
    \E c \in Callers :
        /\ op[c].name = "send_image" /\ Done(c) /\ Failed(c)
        /\ Len(reqs[c]) = 2 /\ reqs[c][2].url = "SEND_URL"
        /\ res[c].remote = Some(40014)

\* ----------------------------------------------------------------- C14
\* C14: the touser of every send request for a non-empty recipient list is
\* the recipients in the order given with "|" between neighbours: as many
\* identifiers as were given, each unaltered and in its place.
C14_ToUserJoined ==
    \A c \in Callers : \A i \in 1..Len(reqs[c]) :
        (reqs[c][i].url = "SEND_URL" /\ op[c].users # <<>>) =>
            LET t == reqs[c][i].touser
                u == op[c].users
            IN  /\ Len(t) = 2 * Len(u) - 1
                /\ \A k \in 1..Len(u) : t[2 * k - 1] = u[k]
                /\ \A k \in 1..(Len(u) - 1) : t[2 * k] = "|"

\* A message for three recipients has gone out.
C14_Witness ==
    \E c \in Callers :
        /\ op[c].users = <<"bob", "carol", "alice">>
        /\ Len(reqs[c]) >= 1
        /\ reqs[c][Len(reqs[c])].touser = <<"bob", "|", "carol", "|", "alice">>

\* ----------------------------------------------------------------- C15
\* C15: whenever no fetch stands between its two writes, the cached token
\* and the cached expiry are both unset or both from one token response;
\* and a reader that found the cache usable is returning a token whose
\* expiry came from the same response.
C15_TokenAndExpiryPaired ==
    /\ (\A c \in Callers : pc[c] # "fetch_exp") =>
          \/ IsNone(access_token) /\ IsNone(token_expires_at)
          \/ born.paired
    /\ \A c \in Callers : pc[c] = "gat_ret" => born.paired

\* ----------------------------------------------------------------- C16
\* C16: an operation that has failed leaves the cached token and expiry
\* as they stood when it began or, if it got a token before failing, as
\* that successful get_access_token left them.
C16_FailureKeepsCache ==
    \A c \in Callers :
        (Done(c) /\ Failed(c)) => <<access_token, token_expires_at>> = snap

\* ----------------------------------------------------------------- C17
\* The request that is on its way carries the token get_access_token has
\* just returned to this operation, which is the token in the cache.
C17_CarriesReturnedToken ==
    \A c \in Callers :
        pc[c] = "api_wait" =>
            /\ Len(reqs[c]) >= 1
            /\ ~IsNone(tok[c])
            /\ reqs[c][Len(reqs[c])].access_token = tok[c]
            /\ tok[c] = access_token

\* A step in which get_access_token raises sends no request, and a step
\* that sends one is the step in which the token is returned.
C17_NoRequestWithoutToken ==
    \A c \in Callers :
        /\ (pc[c] \in {"fetch_wait", "fetch_exp"} /\ Failed(c)') =>
              reqs'[c] = reqs[c]
        /\ Len(reqs'[c]) > Len(reqs[c]) =>
              /\ pc[c] \in {"gat_ret", "fetch_exp"}
              /\ reqs'[c][Len(reqs'[c])].access_token = tok'[c]

\* C17: every authenticated request carries the token get_access_token
\* returned to the same operation just before the request was sent; when
\* the token fetch fails the operation sends no request; with one caller
\* at a time the token carried is the one in the cache at that moment.
C17_TokenBeforeRequest ==
    [](C17_CarriesReturnedToken) /\ [][C17_NoRequestWithoutToken]_vars

\* send_image has uploaded with one token, found it expired, and is
\* sending with the token fetched after it.
C17_Witness ==
    \E c \in Callers :
        /\ op[c].name = "send_image" /\ pc[c] = "api_wait"
        /\ Len(reqs[c]) = 2
        /\ reqs[c][1].access_token = Some("tokA")
        /\ reqs[c][2].access_token = Some("tokB")
        /\ access_token = Some("tokB")

\* ----------------------------------------------------------------- C18
\* C18: a token that get_access_token returns from the cache was asked
\* with the corpsecret the instance holds during that call.
C18_CacheBoundToSecret ==
    \A c \in Callers :
        (Done(c) /\ Ok(c) /\ op[c].name = "get_access_token" /\ nfetch[c] = 0)
            => born.secret = corpsecret

====
